---------------------------- MODULE Spec2Model ----------------------------
(***************************************************************************)
(* Map annotations of oggm_3dviz (tools/map_annotations.py): the four      *)
(* MapAnnotation variants, their constructors and their add_annotation     *)
(* methods, rendered against a Glacier3DViz context onto a pyvista         *)
(* plotter.                                                                *)
(*                                                                         *)
(* Numbers.  Python floats are modelled by exact fixed-point rationals.    *)
(* Dataset coordinates, direction components, latitudes, longitudes and    *)
(* heights are integers.  Relative quantities (x/y/z_position,             *)
(* arrow_magnitude, text_position) are numerators over FracDen.  Hence     *)
(*   arrow_cent, arrow_magnitude   are numerators over FracDen,            *)
(*   the arrow's text point        is a numerator over FracDen * FracDen.  *)
(* Floating-point rounding is not modelled.                                *)
(*                                                                         *)
(* Python values.  None is the record None; an optional list or dict is    *)
(* either None or wrapped ([list |-> ...], [dict |-> ...]).  A dict of     *)
(* keyword arguments is a function from key strings to opaque value        *)
(* tokens (strings).  A colour given by name is [name |-> s], one given    *)
(* as a sequence is [seq |-> <<...>>].                                     *)
(***************************************************************************)
EXTENDS Integers, Sequences, FiniteSets, TLC

VARIABLES
    ctx,      \* the Glacier3DViz context the orchestrator holds
    heap,     \* mesh objects by reference: the context's topo_mesh and the copies handed to the plotter
    ann,      \* ann[s]: the annotation object in slot s of the orchestrator's list, or None
    calls,    \* calls[s]: the plotter calls issued by the last add_annotation of slot s
    rctx,     \* rctx[s]: the glacier_3dviz argument of the last add_annotation of slot s, or None
    pctx,     \* pctx[s]: the glacier_3dviz argument of the add_annotation before that one, or None
    cargs,    \* cargs[s]: the constructor arguments of the annotation in slot s, or None
    op,       \* the last operation performed: its name, its slot and its arguments
    raised    \* the exception the last operation raised ("none" if it returned)

vars == <<ctx, heap, ann, calls, rctx, pctx, cargs, op, raised>>

----------------------------------------------------------------------------
(* Bounds of the model *)

\* denominator of the relative quantities
FracDen == 2
\* rows and columns of the gridded fields of the dataset
GridRows == 2
GridCols == 2

Slots == {1, 2}

----------------------------------------------------------------------------
(* Python values *)

None == [none |-> TRUE]

IsNone(v) == DOMAIN v = {"none"}

\* dict(pairs): the dict of a sequence of <<key, value>> pairs
dict(pairs) ==
    [k \in {pairs[i][1] : i \in DOMAIN pairs} |->
        LET i == CHOOSE i \in DOMAIN pairs : pairs[i][1] = k IN pairs[i][2]]

\* a slip: the default overwrites the caller's value
setdefault_overwrite(d, key, default) ==
    [k \in DOMAIN d \cup {key} |-> IF k = key THEN default ELSE d[k]]

\* dict.setdefault(key, default) on the dict d
setdefault(d, key, default) ==
    IF key \in DOMAIN d
    THEN d
    ELSE [k \in DOMAIN d \cup {key} |-> IF k = key THEN default ELSE d[k]]

Range(s) == {s[i] : i \in DOMAIN s}

\* numpy/xarray .min() and .max() over the elements of an array
RECURSIVE SetMin(_)
SetMin(S) ==
    LET e == CHOOSE e \in S : TRUE
    IN  IF S = {e} THEN e
        ELSE LET m == SetMin(S \ {e}) IN IF e < m THEN e ELSE m

RECURSIVE SetMax(_)
SetMax(S) ==
    LET e == CHOOSE e \in S : TRUE
    IN  IF S = {e} THEN e
        ELSE LET m == SetMax(S \ {e}) IN IF e > m THEN e ELSE m

\* An array (numpy array, xarray DataArray) is its shape and its elements in
\* row-major order: [shape |-> <<n>> or <<rows, cols>>, data |-> <<...>>]
Array1(data) == [shape |-> <<Len(data)>>, data |-> data]

min(a) == SetMin(Range(a.data))

max(a) == SetMax(Range(a.data))

----------------------------------------------------------------------------
(* utils.check_color *)

NamedColors == {"black", "blue", "red"}

NamedColor(name) ==
    CASE name = "black" -> <<0, 0, 0, 255>>
      [] name = "blue"  -> <<0, 0, 255, 255>>
      [] name = "red"   -> <<255, 0, 0, 255>>

IsByte(n) == n \in 0..255

\* whether check_color accepts the colour
color_ok(color) ==
    IF "name" \in DOMAIN color
    THEN color.name \in NamedColors
    ELSE /\ Len(color.seq) \in {3, 4}
         /\ \A i \in DOMAIN color.seq : IsByte(color.seq[i])

\* the canonical 4-byte RGBA value of an accepted colour
check_color(color) ==
    IF "name" \in DOMAIN color
    THEN NamedColor(color.name)
    ELSE IF Len(color.seq) = 3 THEN Append(color.seq, 255) ELSE color.seq

----------------------------------------------------------------------------
(* pyproj.Proj: an equirectangular projection, x from the longitude and    *)
(* y from the latitude.  srs is the dataset's projection descriptor.       *)

Proj(srs, longitude, latitude) ==
    <<srs.kx * (longitude - srs.lon_0), srs.ky * latitude>>

----------------------------------------------------------------------------
(* Mesh objects *)

\* the reference of the context's own terrain mesh
TopoRef == 0

\* copy.deepcopy of a mesh for slot s: a new object, distinct from every mesh of the context
DeepCopyRef(s) == s

----------------------------------------------------------------------------
(* class PointAnnotation *)

\* __init__(latitude, longitude, height, text, **kwargs)
PointAnnotation(a) ==
    [class          |-> "PointAnnotation",
     latitude       |-> a.latitude,
     longitude      |-> a.longitude,
     height         |-> a.height,
     latitude_proj  |-> None,
     longitude_proj |-> None,
     text           |-> a.text,
     kwargs         |-> a.kwargs]

\* target_proj(self.latitude, self.longitude): Proj's first positional
\* parameter is the longitude, its second the latitude
reproject_coords(self, glacier_3dviz) ==
    LET p == Proj(glacier_3dviz.dataset.pyproj_srs, self.latitude, self.longitude)
    IN  [self EXCEPT !.latitude_proj = p[1], !.longitude_proj = p[2]]

PointAnnotation_add_annotation(self, glacier_3dviz) ==
    LET self1 == reproject_coords(self, glacier_3dviz)
    IN  [self  |-> self1,
         calls |-> << [fn     |-> "add_point_labels",
                       points |-> << <<self1.latitude_proj, self1.longitude_proj,
                                       self1.height>> >>,
                       labels |-> <<self1.text>>,
                       kwargs |-> self1.kwargs] >>]

----------------------------------------------------------------------------
(* class ArrowAnnotation *)

\* arrow_kwargs / text_kwargs: None or [dict |-> d]
OrEmpty(kw) == IF IsNone(kw) THEN <<>> ELSE kw.dict

ArrowKwargsDefaults(arrow_kwargs) ==
    setdefault(setdefault(OrEmpty(arrow_kwargs),
        "show_scalar_bar", "False"),
        "color", "[0.2, 0.2, 0.2]")

TextKwargsDefaults(text_kwargs) ==
    setdefault(setdefault(setdefault(OrEmpty(text_kwargs),
        "shape", "None"),
        "show_points", "False"),
        "font_size", "30")

\* __init__(x_position, ..., arrow_kwargs, text_kwargs)
ArrowAnnotation(a) ==
    [class                    |-> "ArrowAnnotation",
     x_position               |-> a.x_position,
     y_position               |-> a.y_position,
     z_position               |-> a.z_position,
     text                     |-> a.text,
     text_position            |-> a.text_position,
     arrow_cent               |-> None,
     arrow_direction          |-> << <<a.x_direction, a.y_direction, a.z_direction>> >>,
     arrow_magnitude_relative |-> a.arrow_magnitude,
     arrow_magnitude          |-> None,
     arrow_kwargs             |-> ArrowKwargsDefaults(a.arrow_kwargs),
     text_kwargs              |-> TextKwargsDefaults(a.text_kwargs)]

\* a slip: the maximum in place of the extent
get_position_of_maximum(minimum, maximum, position) ==
    minimum * FracDen + position * maximum

\* minimum + position * (maximum - minimum), position a numerator over
\* FracDen: the result is a numerator over FracDen
get_position(minimum, maximum, position) ==
    minimum * FracDen + position * (maximum - minimum)

set_arrow_position(self, glacier_3dviz) ==
    LET x_cent == get_position(min(glacier_3dviz.dataset[glacier_3dviz.x]),
                               max(glacier_3dviz.dataset[glacier_3dviz.x]),
                               self.x_position)
        y_cent == get_position(min(glacier_3dviz.dataset[glacier_3dviz.y]),
                               max(glacier_3dviz.dataset[glacier_3dviz.y]),
                               self.y_position)
        z_cent == get_position(min(glacier_3dviz.dataset[glacier_3dviz.topo_bedrock]),
                               max(glacier_3dviz.dataset[glacier_3dviz.topo_bedrock]),
                               self.z_position)
    IN  [self EXCEPT !.arrow_cent = << <<x_cent, y_cent, z_cent>> >>]

Abs(n) == IF n < 0 THEN -n ELSE n

\* a slip: the magnitude scaled by the length of the direction as well
set_arrow_magnitude_by_direction(self, glacier_3dviz) ==
    [self EXCEPT !.arrow_magnitude =
        (max(glacier_3dviz.dataset[glacier_3dviz.y]) -
         min(glacier_3dviz.dataset[glacier_3dviz.y])) *
        self.arrow_magnitude_relative *
        (Abs(self.arrow_direction[1][1]) + Abs(self.arrow_direction[1][2]) +
         Abs(self.arrow_direction[1][3]))]

\* a numerator over FracDen
set_arrow_magnitude(self, glacier_3dviz) ==
    [self EXCEPT !.arrow_magnitude =
        (max(glacier_3dviz.dataset[glacier_3dviz.y]) -
         min(glacier_3dviz.dataset[glacier_3dviz.y])) *
        self.arrow_magnitude_relative]

\* a slip: the relative magnitude in place of the magnitude
ArrowTextPoints_relative(self) ==
    << [i \in 1..3 |->
          self.arrow_cent[1][i] * FracDen +
          (self.arrow_direction[1][i] * self.arrow_magnitude_relative * FracDen) *
          self.text_position] >>

\* arrow_cent + arrow_direction * arrow_magnitude * text_position, a 1 x 3
\* array of numerators over FracDen * FracDen
ArrowTextPoints(self) ==
    << [i \in 1..3 |->
          self.arrow_cent[1][i] * FracDen +
          (self.arrow_direction[1][i] * self.arrow_magnitude) * self.text_position] >>

ArrowAnnotation_add_annotation(self, glacier_3dviz) ==
    LET self1 == set_arrow_position(self, glacier_3dviz)
        self2 == set_arrow_magnitude(self1, glacier_3dviz)
    IN  [self  |-> self2,
         calls |-> << [fn        |-> "add_arrows",
                       cent      |-> self2.arrow_cent,
                       direction |-> self2.arrow_direction,
                       mag       |-> self2.arrow_magnitude,
                       kwargs    |-> self2.arrow_kwargs],
                      [fn        |-> "add_point_labels",
                       points    |-> ArrowTextPoints(self2),
                       labels    |-> <<self2.text>>,
                       kwargs    |-> self2.text_kwargs] >>]

----------------------------------------------------------------------------
(* class OutlineAnnotation *)

\* the exception __init__ raises, "none" if it returns
OutlineAnnotation_raises(a) ==
    IF color_ok(a.outline_color) THEN "none" ELSE "ValueError"

\* __init__(outline_data, outline_color)
OutlineAnnotation(a) ==
    [class           |-> "OutlineAnnotation",
     outline_data    |-> a.outline_data,
     outline_color   |-> check_color(a.outline_color),
     outline_texture |-> None]

\* a slip: the colour where the mask is not 0
TextureArray_nonzero(outline_mask, outline_color) ==
    [shape |-> outline_mask.shape \o <<4>>,
     data  |-> [i \in DOMAIN outline_mask.data |->
                  IF outline_mask.data[i] # 1
                  THEN [c \in 1..4 |-> outline_color[c] % 256]
                  ELSE <<0, 0, 0, 0>>]]

\* np.zeros((*outline_mask.shape, 4), dtype=np.uint8), then
\* outline_texture[outline_mask == 1, :] = self.outline_color
\* data holds one RGBA pixel per element of the mask, in the mask's order
TextureArray(outline_mask, outline_color) ==
    [shape |-> outline_mask.shape \o <<4>>,
     data  |-> [i \in DOMAIN outline_mask.data |->
                  IF outline_mask.data[i] = 1
                  THEN [c \in 1..4 |-> outline_color[c] % 256]
                  ELSE <<0, 0, 0, 0>>]]

\* pv.numpy_to_texture(image)
numpy_to_texture(image) == [class |-> "Texture", image |-> image]

\* a slip: the texture built once and kept
set_outline_texture_cached(self, glacier_3dviz) ==
    IF ~IsNone(self.outline_texture) THEN self
    ELSE LET outline_mask == glacier_3dviz.dataset[self.outline_data]
         IN  [self EXCEPT !.outline_texture =
                 numpy_to_texture(TextureArray(outline_mask, self.outline_color))]

set_outline_texture(self, glacier_3dviz) ==
    LET outline_mask == glacier_3dviz.dataset[self.outline_data]
    IN  [self EXCEPT !.outline_texture =
            numpy_to_texture(TextureArray(outline_mask, self.outline_color))]

\* a slip: the mesh itself in place of a copy
deepcopy_alias(hp, ref, s) == [ref |-> ref, heap |-> hp]

\* copy.deepcopy(mesh) called for slot s: a new object with the state of
\* the original
deepcopy(hp, ref, s) ==
    [ref |-> DeepCopyRef(s), heap |-> [hp EXCEPT ![DeepCopyRef(s)] = hp[ref]]]

OutlineAnnotation_add_annotation(self, glacier_3dviz, hp, s) ==
    LET self1 == set_outline_texture(self, glacier_3dviz)
        cp    == deepcopy(hp, glacier_3dviz.topo_mesh, s)
    IN  [self  |-> self1,
         heap  |-> cp.heap,
         calls |-> << [fn      |-> "add_mesh",
                       mesh    |-> cp.ref,
                       texture |-> self1.outline_texture] >>]

----------------------------------------------------------------------------
(* class LegendAnnotation *)

\* for label in self.labels: label[1] = check_color(label[1])
\* labels is None or [list |-> <<..., <<text, color>>, ...>>]
LegendAnnotation_raises(a) ==
    IF IsNone(a.labels) THEN "TypeError"
    ELSE IF \E i \in DOMAIN a.labels.list : ~color_ok(a.labels.list[i][2])
         THEN "ValueError"
         ELSE "none"

NormalizeLabels(labels) ==
    [list |-> [i \in DOMAIN labels.list |->
                 <<labels.list[i][1], check_color(labels.list[i][2])>>]]

LegendKwargsDefaults(kwargs) ==
    setdefault(setdefault(setdefault(setdefault(kwargs,
        "bcolor", "(0.5, 0.5, 0.5)"),
        "size", "(0.2, 0.1)"),
        "loc", "lower center"),
        "face", "rectangle")

\* __init__(labels, **kwargs)
LegendAnnotation(a) ==
    [class  |-> "LegendAnnotation",
     labels |-> NormalizeLabels(a.labels),
     kwargs |-> LegendKwargsDefaults(a.kwargs)]

LegendAnnotation_add_annotation(self) ==
    [self  |-> self,
     calls |-> << [fn     |-> "add_legend",
                   labels |-> self.labels,
                   kwargs |-> self.kwargs] >>]

----------------------------------------------------------------------------
(* The plotter *)

\* what pv.Plotter.add_mesh(mesh, texture=...) may do to the mesh object it
\* is given: leave it as it is, or set its active texture coordinates
PlotterEffects == {"unchanged", "Texture Coordinates"}

add_mesh_effect(hp, cs, e) ==
    [r \in DOMAIN hp |->
        IF e # "unchanged" /\ \E i \in DOMAIN cs : cs[i].fn = "add_mesh" /\ cs[i].mesh = r
        THEN [hp[r] EXCEPT !.active_t_coords = e]
        ELSE hp[r]]

----------------------------------------------------------------------------
(* Constructor arguments.  A mapping of options is given as a sequence of  *)
(* <<key, value>> pairs; an optional one is None or [pairs |-> <<...>>].   *)

Options(kw) == IF IsNone(kw) THEN None ELSE [dict |-> dict(kw.pairs)]

PointRecord(lat, lon, height, text, kw) ==
    [latitude |-> lat, longitude |-> lon, height |-> height, text |-> text,
     kwargs |-> dict(kw)]

PointKwargs == {<<>>, << <<"font_size", "20">> >>}

Fractions == {0, 1, FracDen, FracDen + 1}

Directions == {<<0, 1, 0>>, <<1, 0, -1>>, <<-2, 0, 0>>}

ArrowRecord(pos, dir, mag, text, tp, akw, tkw) ==
    [x_position |-> pos[1], y_position |-> pos[2], z_position |-> pos[3],
     x_direction |-> dir[1], y_direction |-> dir[2], z_direction |-> dir[3],
     arrow_magnitude |-> mag, text |-> text, text_position |-> tp,
     arrow_kwargs |-> Options(akw), text_kwargs |-> Options(tkw)]

ArrowKwargs ==
    {None,
     [pairs |-> <<>>],
     [pairs |-> << <<"color", "red">> >>],
     [pairs |-> << <<"show_scalar_bar", "True">>, <<"opacity", "0.5">> >>]}

TextKwargs ==
    {None,
     [pairs |-> << <<"font_size", "12">> >>],
     [pairs |-> << <<"shape", "rounded_rect">>, <<"bold", "True">> >>]}

Colors ==
    {[name |-> "black"], [name |-> "blue"], [seq |-> <<100, 100, 100, 255>>],
     [seq |-> <<255, 0, 0>>]}

BadColor == [name |-> "no such color"]

OutlineRecord(data, color) == [outline_data |-> data, outline_color |-> color]

LegendLabels ==
    {None,
     [list |-> <<>>],
     [list |-> << <<"ice", [name |-> "blue"]>>,
                  <<"rock", [seq |-> <<100, 100, 100, 255>>]>> >>],
     [list |-> << <<"ice", [seq |-> <<0, 0, 255>>]>> >>],
     [list |-> << <<"ice", [name |-> "blue"]>>, <<"rock", BadColor>> >>]}

LegendKwargs ==
    {<<>>,
     << <<"loc", "upper left">> >>,
     << <<"bcolor", "white">>, <<"border", "True">> >>}

LegendRecord(labels, kw) == [labels |-> labels, kwargs |-> dict(kw)]

----------------------------------------------------------------------------
(* Operations *)

\* the constructor call name(args) for the empty slot s; exc is the exception
\* it raises ("none": it returns obj, which the orchestrator adds to its list)
Construct(s, name, args, exc, obj) ==
    /\ op' = [name |-> name, slot |-> s, args |-> args]
    /\ raised' = exc
    /\ IF exc = "none"
       THEN /\ ann' = [ann EXCEPT ![s] = obj]
            /\ calls' = [calls EXCEPT ![s] = <<>>]
            /\ rctx' = [rctx EXCEPT ![s] = None]
            /\ pctx' = [pctx EXCEPT ![s] = None]
            /\ cargs' = [cargs EXCEPT ![s] = args]
       ELSE UNCHANGED <<ann, calls, rctx, pctx, cargs>>
    /\ UNCHANGED <<ctx, heap>>

\* PointAnnotation(latitude, longitude, height, text, **kwargs)
ConstructPoint(s, latitude, longitude, height, text, kwargs) ==
    /\ IsNone(ann[s])
    /\ LET a == PointRecord(latitude, longitude, height, text, kwargs)
       IN  Construct(s, "PointAnnotation", a, "none", PointAnnotation(a))

\* ArrowAnnotation(x_position, ..., text_position, arrow_kwargs, text_kwargs)
ConstructArrow(s, position, direction, arrow_magnitude, text, text_position, arrow_kwargs, text_kwargs) ==
    /\ IsNone(ann[s])
    /\ LET a == ArrowRecord(position, direction, arrow_magnitude, text,
                            text_position, arrow_kwargs, text_kwargs)
       IN  Construct(s, "ArrowAnnotation", a, "none", ArrowAnnotation(a))

\* OutlineAnnotation(outline_data, outline_color)
ConstructOutline(s, outline_data, outline_color) ==
    /\ IsNone(ann[s])
    /\ LET a == OutlineRecord(outline_data, outline_color)
       IN  Construct(s, "OutlineAnnotation", a, OutlineAnnotation_raises(a),
                     OutlineAnnotation(a))

\* LegendAnnotation(labels, **kwargs)
ConstructLegend(s, labels, kwargs) ==
    /\ IsNone(ann[s])
    /\ LET a == LegendRecord(labels, kwargs)
       IN  Construct(s, "LegendAnnotation", a, LegendAnnotation_raises(a),
                     LegendAnnotation(a))

\* annotation.add_annotation(glacier_3dviz, plotter), dispatched on the class
add_annotation(self, glacier_3dviz, hp, s) ==
    CASE self.class = "PointAnnotation" ->
            [heap |-> hp] @@ PointAnnotation_add_annotation(self, glacier_3dviz)
      [] self.class = "ArrowAnnotation" ->
            [heap |-> hp] @@ ArrowAnnotation_add_annotation(self, glacier_3dviz)
      [] self.class = "OutlineAnnotation" ->
            OutlineAnnotation_add_annotation(self, glacier_3dviz, hp, s)
      [] self.class = "LegendAnnotation" ->
            [heap |-> hp] @@ LegendAnnotation_add_annotation(self)

\* the orchestrator renders the annotation of slot s against its context
Render(s) ==
    /\ ~IsNone(ann[s])
    /\ LET r == add_annotation(ann[s], ctx, heap, s)
       IN  \E e \in PlotterEffects :
             /\ ann' = [ann EXCEPT ![s] = r.self]
             /\ calls' = [calls EXCEPT ![s] = r.calls]
             /\ heap' = add_mesh_effect(r.heap, r.calls, e)
             /\ rctx' = [rctx EXCEPT ![s] = ctx]
             /\ pctx' = [pctx EXCEPT ![s] = rctx[s]]
    /\ op' = [name |-> "add_annotation", slot |-> s]
    /\ raised' = "none"
    /\ UNCHANGED <<ctx, cargs>>

\* the orchestrator's context changes between two draw cycles
SetContext(c) ==
    /\ c # ctx
    /\ ctx' = c
    /\ op' = [name |-> "set_context"]
    /\ raised' = "none"
    /\ UNCHANGED <<heap, ann, calls, rctx, pctx, cargs>>

----------------------------------------------------------------------------
(* Contexts: the dataset, the names of its fields, and the terrain mesh *)

GridIndex == 1..(GridRows * GridCols)

\* a coordinate axis of n points from first to last
Coord(first, last, n) ==
    Array1([j \in 1..n |-> first + ((last - first) * (j - 1)) \div (n - 1)])

\* a gridded field with values between lo and hi
Field(lo, hi) ==
    [shape |-> <<GridRows, GridCols>>,
     data  |-> [i \in GridIndex |->
                  IF i = 1 THEN hi
                  ELSE IF i = GridRows * GridCols THEN lo
                  ELSE lo + (hi - lo) \div 2]]

Mask(m) == [shape |-> <<GridRows, GridCols>>, data |-> m]

Masks == {Mask(m) : m \in [GridIndex -> {0, 1}]}

MaskA == Mask([i \in GridIndex |-> i % 2])

MaskB == Mask([i \in GridIndex |-> IF i = 1 THEN 0 ELSE 1])

Invert(mask) == [mask EXCEPT !.data = [i \in DOMAIN mask.data |-> 1 - mask.data[i]]]

\* extents: x and y as <<first, last>> in storage order, bedrock as <<lo, hi>>
Extent1 == [x |-> <<0, 10>>, y |-> <<20, 0>>, bedrock |-> <<100, 200>>]

Extent2 == [x |-> <<-4, 2>>, y |-> <<10, 30>>, bedrock |-> <<3, 9>>]

Extent3 == [x |-> <<5, 7>>, y |-> <<-6, -6>>, bedrock |-> <<-2, 0>>]

Extents == {Extent1, Extent2, Extent3}

Srs1 == [lon_0 |-> 0, kx |-> 2, ky |-> 3]

Srs2 == [lon_0 |-> 10, kx |-> 1, ky |-> 2]

Context(ext, mask, srs) ==
    [dataset      |-> [x            |-> Coord(ext.x[1], ext.x[2], GridCols),
                       y            |-> Coord(ext.y[1], ext.y[2], GridRows),
                       bedrock      |-> Field(ext.bedrock[1], ext.bedrock[2]),
                       glacier_ext  |-> mask,
                       glacier_mask |-> Invert(mask),
                       pyproj_srs   |-> srs],
     x            |-> "x",
     y            |-> "y",
     topo_bedrock |-> "bedrock",
     topo_mesh    |-> TopoRef]

Contexts ==
    {Context(Extent1, MaskA, Srs1),
     Context(Extent2, MaskB, Srs2),
     Context(Extent3, MaskA, Srs2)}

ArrowContexts == {Context(e, MaskA, Srs1) : e \in Extents}

OutlineContexts == {Context(Extent1, m, Srs1) : m \in Masks}

\* the terrain mesh as the context built it
TopoMesh == [grid |-> <<GridRows, GridCols>>, active_t_coords |-> "None"]

----------------------------------------------------------------------------
(* Specifications *)

InitIn(contexts) ==
    /\ ctx \in contexts
    /\ heap = [r \in {TopoRef} \cup {DeepCopyRef(s) : s \in Slots} |->
                 IF r = TopoRef THEN TopoMesh ELSE None]
    /\ ann = [s \in Slots |-> None]
    /\ calls = [s \in Slots |-> <<>>]
    /\ rctx = [s \in Slots |-> None]
    /\ pctx = [s \in Slots |-> None]
    /\ cargs = [s \in Slots |-> None]
    /\ op = [name |-> "init"]
    /\ raised = "none"

\* all four variants in one slot, the context changing between draw cycles
Init == InitIn(Contexts)

Next ==
    \/ \E lat \in {46, 47}, lon \in {10, 11}, height \in {0, 3000}, kw \in PointKwargs :
          ConstructPoint(1, lat, lon, height, "Summit", kw)
    \/ \E akw \in ArrowKwargs, tkw \in TextKwargs :
          ConstructArrow(1, <<1, FracDen, 0>>, <<0, 1, 0>>, 1, "N", FracDen + 1,
                         akw, tkw)
    \/ \E data \in {"glacier_ext", "glacier_mask"}, color \in Colors \cup {BadColor} :
          ConstructOutline(1, data, color)
    \/ \E labels \in LegendLabels, kw \in LegendKwargs :
          ConstructLegend(1, labels, kw)
    \/ Render(1)
    \/ \E c \in Contexts : SetContext(c)

Spec == Init /\ [][Next]_vars

\* one arrow, every geometry
InitArrow == InitIn(ArrowContexts)

NextArrow ==
    \/ \E pos \in Fractions \X Fractions \X Fractions, dir \in Directions,
          mag \in {1, FracDen + 1}, tp \in {0, FracDen, FracDen + 1} :
          ConstructArrow(1, pos, dir, mag, "N", tp, None, None)
    \/ Render(1)

SpecArrow == InitArrow /\ [][NextArrow]_vars

\* two arrows rendered against the same context
NextArrowPair ==
    \/ \E s \in Slots, pos \in {<<0, 0, 0>>, <<FracDen, 1, FracDen + 1>>},
          dir \in {<<0, 1, 0>>, <<1, 0, -1>>}, mag \in {1, FracDen + 1},
          label \in {<<"N", FracDen>>, <<"S", FracDen + 1>>} :
          ConstructArrow(s, pos, dir, mag, label[1], label[2], None, None)
    \/ \E s \in Slots : Render(s)

SpecArrowPair == InitArrow /\ [][NextArrowPair]_vars

\* one outline, every mask
InitOutline == InitIn(OutlineContexts)

NextOutline ==
    \/ \E data \in {"glacier_ext", "glacier_mask"}, color \in Colors \cup {BadColor} :
          ConstructOutline(1, data, color)
    \/ Render(1)

SpecOutline == InitOutline /\ [][NextOutline]_vars

----------------------------------------------------------------------------
(* Properties *)

\* the least and the greatest element of an array
Lo(a) == CHOOSE m \in Range(a.data) : \A e \in Range(a.data) : m <= e

Hi(a) == CHOOSE m \in Range(a.data) : \A e \in Range(a.data) : m >= e

IsA(s, class) == ~IsNone(ann[s]) /\ ann[s].class = class

\* slot s holds an annotation of the class and add_annotation has been called on it
Rendered(s, class) == IsA(s, class) /\ ~IsNone(rctx[s])

\* C1: a LegendAnnotation constructed with labels = None is constructed
\* without error, and every render of it calls add_legend exactly once with
\* labels = None
C1_NoneLabelsAccepted ==
    /\ (op.name = "LegendAnnotation" /\ IsNone(op.args.labels)) =>
          /\ raised = "none"
          /\ IsA(op.slot, "LegendAnnotation")
          /\ IsNone(ann[op.slot].labels)
    /\ \A s \in Slots :
          (Rendered(s, "LegendAnnotation") /\ IsNone(cargs[s].labels)) =>
             /\ Len(calls[s]) = 1
             /\ calls[s][1].fn = "add_legend"
             /\ IsNone(calls[s][1].labels)

\* C2: every render of a PointAnnotation requests exactly one point-label
\* draw, with the configured text, the caller's options, and the one point
\* (px, py, height) where (px, py) is the projection of (longitude,
\* latitude) under the context's projection descriptor
C2_PointAtProjectedLonLat ==
    \A s \in Slots :
        Rendered(s, "PointAnnotation") =>
            LET p == Proj(rctx[s].dataset.pyproj_srs,
                          cargs[s].longitude, cargs[s].latitude)
            IN  calls[s] = << [fn     |-> "add_point_labels",
                               points |-> << <<p[1], p[2], cargs[s].height>> >>,
                               labels |-> <<cargs[s].text>>,
                               kwargs |-> cargs[s].kwargs] >>

\* C8: add_legend is never called with an empty list of labels
C8_EmptyLabelsNeverDrawn ==
    \A s \in Slots :
        \A i \in DOMAIN calls[s] :
            calls[s][i].fn = "add_legend" =>
                (IsNone(calls[s][i].labels) \/ calls[s][i].labels.list # <<>>)

\* the add_arrows call and the add_point_labels call of a rendered arrow
ArrowCall(s) == calls[s][1]

TextCall(s) == calls[s][2]

C5_TextPointAlongArrow ==
    \A s \in Slots :
        Rendered(s, "ArrowAnnotation") =>
            LET a  == ArrowCall(s)
                t  == TextCall(s)
                tp == cargs[s].text_position
            IN  /\ Len(calls[s]) = 2
                /\ a.fn = "add_arrows" /\ t.fn = "add_point_labels"
                /\ t.labels = <<cargs[s].text>>
                /\ Len(t.points) = 1 /\ Len(t.points[1]) = 3
                /\ \A i \in 1..3 :
                      /\ t.points[1][i] =
                            a.cent[1][i] * FracDen + a.direction[1][i] * a.mag * tp
                      /\ tp = 0 => t.points[1][i] = a.cent[1][i] * FracDen
                      /\ tp = FracDen =>
                            t.points[1][i] =
                                FracDen * (a.cent[1][i] + a.direction[1][i] * a.mag)

\* an arrow of non-zero length along x and z with its text beyond the tip has been rendered
C5_Witness ==
    /\ Rendered(1, "ArrowAnnotation")
    /\ ArrowCall(1).direction = << <<1, 0, -1>> >>
    /\ ArrowCall(1).mag > 0
    /\ cargs[1].text_position = FracDen + 1
    /\ TextCall(1).points[1][1] > ArrowCall(1).cent[1][1] * FracDen
    /\ TextCall(1).points[1][3] < ArrowCall(1).cent[1][3] * FracDen

\* C4: the magnitude of a rendered arrow is its relative magnitude times
\* (max(y) - min(y)) of the context's y field, and two arrows with the same
\* relative magnitude rendered against the same context are drawn with the
\* same magnitude, whatever their directions, positions, texts and text
\* positions.  Magnitudes are numerators over FracDen.
C4_MagnitudeOnlyFromYExtent ==
    /\ \A s \in Slots :
          Rendered(s, "ArrowAnnotation") =>
             ArrowCall(s).mag =
                cargs[s].arrow_magnitude *
                (Hi(rctx[s].dataset.y) - Lo(rctx[s].dataset.y))
    /\ \A s, t \in Slots :
          ( /\ Rendered(s, "ArrowAnnotation") /\ Rendered(t, "ArrowAnnotation")
            /\ cargs[s].arrow_magnitude = cargs[t].arrow_magnitude
            /\ rctx[s] = rctx[t] )
          => ArrowCall(s).mag = ArrowCall(t).mag

\* two arrows that differ in direction, position, text and text position but
\* not in relative magnitude have been rendered against the same context
C4_Witness ==
    /\ Rendered(1, "ArrowAnnotation") /\ Rendered(2, "ArrowAnnotation")
    /\ rctx[1] = rctx[2]
    /\ cargs[1].arrow_magnitude = cargs[2].arrow_magnitude
    /\ ArrowCall(1).direction = << <<0, 1, 0>> >>
    /\ ArrowCall(2).direction = << <<1, 0, -1>> >>
    /\ cargs[1].x_position # cargs[2].x_position
    /\ cargs[1].text # cargs[2].text
    /\ cargs[1].text_position # cargs[2].text_position
    /\ ArrowCall(1).mag > 0
    /\ ArrowCall(1).mag = ArrowCall(2).mag

\* C6: the texture of a rendered outline has the shape of the mask plus an
\* RGBA axis; a pixel is (0, 0, 0, 0) where the mask is 0 and the normalized
\* configured colour where the mask is 1
C6_TextureFollowsMask ==
    \A s \in Slots :
        Rendered(s, "OutlineAnnotation") =>
            LET mask  == rctx[s].dataset[cargs[s].outline_data]
                image == calls[s][1].texture.image
            IN  /\ Len(calls[s]) = 1 /\ calls[s][1].fn = "add_mesh"
                /\ image.shape = mask.shape \o <<4>>
                /\ DOMAIN image.data = DOMAIN mask.data
                /\ \A i \in DOMAIN mask.data :
                      /\ Len(image.data[i]) = 4
                      /\ mask.data[i] = 0 => image.data[i] = <<0, 0, 0, 0>>
                      /\ mask.data[i] = 1 => image.data[i] = ann[s].outline_color

\* an outline of a named field other than the default, with transparent and
\* coloured pixels, has been rendered
C6_Witness ==
    /\ Rendered(1, "OutlineAnnotation")
    /\ cargs[1].outline_data = "glacier_mask"
    /\ cargs[1].outline_color = [seq |-> <<255, 0, 0>>]
    /\ \E i, j \in DOMAIN calls[1][1].texture.image.data :
          /\ calls[1][1].texture.image.data[i] = <<0, 0, 0, 0>>
          /\ calls[1][1].texture.image.data[j] = <<255, 0, 0, 255>>

\* result is the caller's mapping merged with the defaults: the caller's
\* keys keep the caller's values, the other default keys have the default
\* values, and there is no other key
Merged(result, caller, defaults) ==
    /\ DOMAIN result = DOMAIN caller \cup DOMAIN defaults
    /\ \A k \in DOMAIN caller : result[k] = caller[k]
    /\ \A k \in DOMAIN defaults \ DOMAIN caller : result[k] = defaults[k]

ArrowDefaults == [show_scalar_bar |-> "False", color |-> "[0.2, 0.2, 0.2]"]

TextDefaults == [shape |-> "None", show_points |-> "False", font_size |-> "30"]

LegendDefaults ==
    [bcolor |-> "(0.5, 0.5, 0.5)", size |-> "(0.2, 0.1)", loc |-> "lower center",
     face |-> "rectangle"]

\* C7: the options a rendered ArrowAnnotation forwards to add_arrows and to
\* add_point_labels, and those a rendered LegendAnnotation forwards to
\* add_legend, are the caller's mapping merged with the variant's defaults;
\* without overrides add_legend receives exactly the four defaults, and it
\* receives the caller's labels with their colours as 4-byte RGBA values
C7_OptionsMergedWithDefaults ==
    \A s \in Slots :
        /\ Rendered(s, "ArrowAnnotation") =>
              /\ Merged(ArrowCall(s).kwargs, OrEmpty(cargs[s].arrow_kwargs), ArrowDefaults)
              /\ Merged(TextCall(s).kwargs, OrEmpty(cargs[s].text_kwargs), TextDefaults)
        /\ Rendered(s, "LegendAnnotation") =>
              LET c == calls[s][1]
              IN  /\ Len(calls[s]) = 1 /\ c.fn = "add_legend"
                  /\ Merged(c.kwargs, cargs[s].kwargs, LegendDefaults)
                  /\ cargs[s].kwargs = <<>> => c.kwargs = LegendDefaults
                  /\ DOMAIN c.labels.list = DOMAIN cargs[s].labels.list
                  /\ \A i \in DOMAIN c.labels.list :
                        /\ c.labels.list[i][1] = cargs[s].labels.list[i][1]
                        /\ Len(c.labels.list[i][2]) = 4
                        /\ \A j \in 1..4 : c.labels.list[i][2][j] \in 0..255
                  /\ cargs[s].labels =
                        [list |-> << <<"ice", [name |-> "blue"]>>,
                                     <<"rock", [seq |-> <<100, 100, 100, 255>>]>> >>]
                     => c.labels =
                        [list |-> << <<"ice", <<0, 0, 255, 255>> >>,
                                     <<"rock", <<100, 100, 100, 255>> >> >>]

\* a legend whose caller overrides one default and adds a key of its own has
\* been rendered with the three other defaults filled in
C7_Witness ==
    /\ Rendered(1, "LegendAnnotation")
    /\ cargs[1].kwargs = [bcolor |-> "white", border |-> "True"]
    /\ Len(cargs[1].labels.list) = 2
    /\ calls[1][1].kwargs =
          [bcolor |-> "white", border |-> "True", size |-> "(0.2, 0.1)",
           loc |-> "lower center", face |-> "rectangle"]

\* C9: a render changes neither the context nor the context's terrain mesh,
\* and the mesh it hands to add_mesh is a copy of the terrain mesh, not the
\* terrain mesh itself
C9_RenderLeavesContextUnchanged ==
    [][op'.name = "add_annotation" =>
          /\ ctx' = ctx
          /\ heap'[ctx.topo_mesh] = heap[ctx.topo_mesh]
          /\ \A i \in DOMAIN calls'[op'.slot] :
                calls'[op'.slot][i].fn = "add_mesh" =>
                   /\ calls'[op'.slot][i].mesh # ctx.topo_mesh
                   /\ heap'[calls'[op'.slot][i].mesh].grid = heap[ctx.topo_mesh].grid]_vars

\* the plotter has changed the mesh an outline handed to it, and the terrain
\* mesh of the context is as the context built it
C9_Witness ==
    /\ op.name = "add_annotation"
    /\ Rendered(op.slot, "OutlineAnnotation")
    /\ heap[calls[op.slot][1].mesh].active_t_coords = "Texture Coordinates"
    /\ heap[ctx.topo_mesh] = TopoMesh

\* the annotation of slot s as its constructor returned it
Fresh(s) ==
    CASE ann[s].class = "PointAnnotation"   -> PointAnnotation(cargs[s])
      [] ann[s].class = "ArrowAnnotation"   -> ArrowAnnotation(cargs[s])
      [] ann[s].class = "OutlineAnnotation" -> OutlineAnnotation(cargs[s])
      [] ann[s].class = "LegendAnnotation"  -> LegendAnnotation(cargs[s])

\* C10: the calls of a render and the fields of the annotation after it are
\* those of the first render of a newly constructed annotation with the same
\* configuration against the same context, whatever was rendered before; an
\* annotation not rendered yet is as its constructor returned it
C10_RenderIndependentOfHistory ==
    \A s \in Slots :
        ~IsNone(ann[s]) =>
            IF IsNone(rctx[s])
            THEN ann[s] = Fresh(s) /\ calls[s] = <<>>
            ELSE LET first == add_annotation(Fresh(s), rctx[s], heap, s)
                 IN  /\ ann[s] = first.self
                     /\ calls[s] = first.calls

\* an arrow has been rendered against one context and then against another,
\* and its anchor and magnitude are those of the second
C10_Witness ==
    /\ op.name = "add_annotation"
    /\ Rendered(1, "ArrowAnnotation")
    /\ ~IsNone(pctx[1])
    /\ pctx[1] # rctx[1]
    /\ Hi(pctx[1].dataset.y) - Lo(pctx[1].dataset.y) #
          Hi(rctx[1].dataset.y) - Lo(rctx[1].dataset.y)
    /\ ann[1].arrow_magnitude =
          cargs[1].arrow_magnitude * (Hi(rctx[1].dataset.y) - Lo(rctx[1].dataset.y))
    /\ ann[1].arrow_cent = ArrowCall(1).cent

============================================================================
